---- MODULE Spec2Model ----
(***************************************************************************)
(* Model of Backend/app.py: the Telugu text classification API.            *)
(*                                                                         *)
(* State: the artifact files on disk (store), the process-wide registry    *)
(* `models`, the position of the startup hook load_models, and the last    *)
(* request served together with its response and the handler's locals.     *)
(*                                                                         *)
(* Text is a sequence of Unicode code points.  Probabilities are exact     *)
(* rationals written as integers in units of 1/Unit.                       *)
(***************************************************************************)
EXTENDS Integers, Sequences, FiniteSets, TLC

VARIABLES store, models, loadpc, request, response, locals

vars == <<store, models, loadpc, request, response, locals>>

(***************************************************************************)
(* Bounds of the model.                                                    *)
(***************************************************************************)
\* longest request text of the full-system specification, in parts
MaxParts == 2
\* longest request text of the keyword specification, in parts
MaxKeywordParts == 2

(***************************************************************************)
(* Generic helpers.                                                        *)
(***************************************************************************)
Range(s) == {s[i] : i \in DOMAIN s}

RECURSIVE Flatten(_)
Flatten(ss) == IF ss = <<>> THEN <<>> ELSE Head(ss) \o Flatten(Tail(ss))

\* every concatenation of at most n members of parts
Concats(parts, n) ==
  UNION {{Flatten(ps) : ps \in [1..k -> parts]} : k \in 0..n}

RECURSIVE SumAt(_, _)
SumAt(vs, i) == IF vs = <<>> THEN 0 ELSE Head(vs)[i] + SumAt(Tail(vs), i)

(***************************************************************************)
(* Probabilities: 1.0 is Unit; Pct(p) is p/100.                            *)
(***************************************************************************)
Unit == 6 * 60
Pct(p) == (p * Unit) \div 100

(***************************************************************************)
(* CATEGORIES (the keys of the dict, in insertion order) and their         *)
(* display names.                                                          *)
(***************************************************************************)
CATEGORIES == <<"business", "editorial", "entertainment", "nation", "sports">>

CategoryKeys == Range(CATEGORIES)

CategoryEnglish(cat) ==
  CASE cat = "business" -> "Business"
    [] cat = "editorial" -> "Editorial"
    [] cat = "entertainment" -> "Entertainment"
    [] cat = "nation" -> "Nation"
    [] cat = "sports" -> "Sports"

\* the Telugu display names, transliterated
CategoryTelugu(cat) ==
  CASE cat = "business" -> "vyaparam"
    [] cat = "editorial" -> "sampadakiyam"
    [] cat = "entertainment" -> "vinodam"
    [] cat = "nation" -> "jatiyam"
    [] cat = "sports" -> "kridalu"

\* CATEGORIES.get(category, {'english': category, 'telugu': category})
category_info(category) ==
  IF category \in CategoryKeys
  THEN [english |-> CategoryEnglish(category), telugu |-> CategoryTelugu(category)]
  ELSE [english |-> category, telugu |-> category]

(***************************************************************************)
(* Text: str.strip(), str.lower() and the `in` substring test.             *)
(***************************************************************************)
\* the code points c with chr(c).isspace()
Whitespace ==
  (9..13) \cup (28..32) \cup {133, 160, 5760} \cup (8192..8202)
    \cup {8232, 8233, 8239, 8287, 12288}

RECURSIVE LStrip(_)
LStrip(s) ==
  IF s # <<>> /\ Head(s) \in Whitespace THEN LStrip(Tail(s)) ELSE s

RECURSIVE RStrip(_)
RStrip(s) ==
  IF s # <<>> /\ s[Len(s)] \in Whitespace
  THEN RStrip(SubSeq(s, 1, Len(s) - 1))
  ELSE s

\* the text taken as sent
strip_Missing(s) == s

strip(s) == RStrip(LStrip(s))

\* lower-casing of one code point: ASCII capitals change, Telugu has no case
LowerChar(c) == IF c \in 65..90 THEN c + 32 ELSE c

lower(s) == [i \in DOMAIN s |-> LowerChar(s[i])]

\* word in text
Contains(text, word) ==
  \E i \in 0..(Len(text) - Len(word)) :
    \A j \in 1..Len(word) : text[i + j] = word[j]

\* any(word in text for word in words)
AnyWordIn(text, words) == \E k \in DOMAIN words : Contains(text, words[k])

(***************************************************************************)
(* The keyword lists of the fallback heuristic, as code points.            *)
(***************************************************************************)
SportsWords ==
  << <<3093, 3149, 3120, 3136, 3105>>,
     <<3100, 3103, 3149, 3103, 3137>>,
     <<3095, 3142, 3122, 3135, 3098>>,
     <<3078, 3105>>,
     <<3118, 3149, 3119, 3134, 3098, 3149>> >>

EntertainmentWords ==
  << <<3128, 3135, 3112, 3135, 3118, 3134>>,
     <<3112, 3103, 3137, 3105, 3137>>,
     <<3112, 3103, 3135>>,
     <<3098, 3135, 3108, 3149, 3120, 3074>>,
     <<3125, 3135, 3112, 3147, 3110>> >>

BusinessWords ==
  << <<3125, 3149, 3119, 3134, 3114, 3134, 3120>>,
     <<3116, 3135, 3100, 3135, 3112, 3142, 3128, 3149>>,
     <<3093, 3074, 3114, 3142, 3112, 3136>>,
     <<3118, 3134, 3120, 3149, 3093, 3142, 3103, 3149>> >>

EditorialWords ==
  << <<3128, 3074, 3114, 3134, 3110, 3093>>,
     <<3077, 3117, 3135, 3114, 3149, 3120, 3134, 3119>> >>

(***************************************************************************)
(* Artifacts: what joblib.load returns for each file of models/.           *)
(* A classifier artifact answers every feature vector the same way; its    *)
(* answer is part of the artifact.                                         *)
(***************************************************************************)
\* joblib.load raises for this file
Unloadable == [kind |-> "unloadable"]

Vectorizer(raises) == [kind |-> "vectorizer", transform_raises |-> raises]

\* has_classes: the object has the attribute classes_
LabelEncoder(has, classes, raises) ==
  [kind |-> "label_encoder", has_classes |-> has, classes_ |-> classes,
   inverse_raises |-> raises]

\* an object with predict_proba; predict_proba(x)[0] is (rtype, data) or raises
Predictor(raises, rtype, data) ==
  [kind |-> "predictor", raises |-> raises, rtype |-> rtype, data |-> data]

\* a numpy array pickled in place of a model
NdArray(data) ==
  [kind |-> "ndarray", raises |-> FALSE, rtype |-> "ndarray", data |-> data]

\* a callable without predict_proba; model(x) is (rtype, data) or raises
Callable(raises, rtype, data) ==
  [kind |-> "callable", raises |-> raises, rtype |-> rtype, data |-> data]

\* any other object: calling it raises TypeError
PlainObject ==
  [kind |-> "object", raises |-> TRUE, rtype |-> "none", data |-> <<>>]

(***************************************************************************)
(* load_models: the files are loaded in this order into `models`.          *)
(***************************************************************************)
\* a classifier loaded before the label encoder
LoadOrder_ClassifierFirst ==
  <<"vectorizer", "muril", "label_encoder", "bilstm", "lgb">>

LoadOrder == <<"vectorizer", "label_encoder", "muril", "bilstm", "lgb">>

ModelNames == <<"muril", "bilstm", "lgb">>

\* len(models) >= 2
models_loaded(m) == Cardinality(DOMAIN m) >= 2

(***************************************************************************)
(* get_predictions(model, text_vector).  The result is what the call       *)
(* returns, or that it raised.                                             *)
(***************************************************************************)
Returned(rtype, data) == [raised |-> FALSE, rtype |-> rtype, data |-> data]
Raised == [raised |-> TRUE, rtype |-> "none", data |-> <<>>]

\* np.ones(num_classes) / num_classes
UniformVector(num_classes) == [i \in 1..num_classes |-> Unit \div num_classes]

\* the except clause lets the failure reach the caller
get_predictions_Reraise(m, model) ==
  IF model.kind = "predictor"
  THEN IF model.raises THEN Raised ELSE Returned(model.rtype, model.data)
  ELSE IF model.kind = "ndarray"
  THEN Returned("ndarray", model.data)
  ELSE IF model.kind = "callable" /\ ~model.raises
  THEN Returned(model.rtype, model.data)
  ELSE Raised

get_predictions(m, model) ==
  IF model.kind = "predictor"
  THEN IF model.raises THEN Raised ELSE Returned(model.rtype, model.data)
  ELSE IF model.kind = "ndarray"
  THEN Returned("ndarray", model.data)
  ELSE IF model.kind = "callable" /\ ~model.raises
  THEN Returned(model.rtype, model.data)
  ELSE Returned("ndarray", UniformVector(Len(m["label_encoder"].classes_)))

(***************************************************************************)
(* classify_text: the loop over the classifiers.                           *)
(***************************************************************************)
\* the prediction of one model is appended to all_predictions
IsAppended(pred, num_classes) ==
  /\ ~pred.raised
  /\ pred.rtype = "ndarray"
  /\ Len(pred.data) = num_classes

RECURSIVE CollectPredictions(_, _, _)
CollectPredictions(m, names, num_classes) ==
  IF names = <<>> THEN <<>>
  ELSE LET model_name == Head(names)
           rest == CollectPredictions(m, Tail(names), num_classes)
       IN IF model_name \in DOMAIN m
          THEN LET pred == get_predictions(m, m[model_name])
               IN IF IsAppended(pred, num_classes)
                  THEN <<pred.data>> \o rest
                  ELSE rest
          ELSE rest

\* np.sum in place of np.mean
Mean_Sum(vs) == [i \in DOMAIN Head(vs) |-> SumAt(vs, i)]

\* np.mean(all_predictions, axis=0)
Mean(vs) == [i \in DOMAIN Head(vs) |-> SumAt(vs, i) \div Len(vs)]

\* np.argmin in place of np.argmax
ArgMax_Min(v) ==
  (CHOOSE i \in DOMAIN v :
     /\ \A j \in DOMAIN v : v[i] <= v[j]
     /\ \A j \in 1..(i - 1) : v[i] < v[j]) - 1

\* np.argmax: the first index (from 0) of the largest entry
ArgMax(v) ==
  (CHOOSE i \in DOMAIN v :
     /\ \A j \in DOMAIN v : v[j] <= v[i]
     /\ \A j \in 1..(i - 1) : v[j] < v[i]) - 1

\* dict(zip(category_list, ensemble_probs)): a later duplicate key wins
ZipDict(keys, vals) ==
  LET n == IF Len(keys) < Len(vals) THEN Len(keys) ELSE Len(vals)
      Last(k) == CHOOSE i \in 1..n : keys[i] = k /\ \A j \in (i + 1)..n : keys[j] # k
  IN [k \in {keys[i] : i \in 1..n} |-> vals[Last(k)]]

(***************************************************************************)
(* classify_text: the fallback heuristic.                                  *)
(***************************************************************************)
\* the entertainment words tested before the sports words
FallbackCategory_EntertainmentFirst(text) ==
  LET text_lower == lower(text)
  IN IF AnyWordIn(text_lower, EntertainmentWords) THEN "entertainment"
     ELSE IF AnyWordIn(text_lower, SportsWords) THEN "sports"
     ELSE IF AnyWordIn(text_lower, BusinessWords) THEN "business"
     ELSE IF AnyWordIn(text_lower, EditorialWords) THEN "editorial"
     ELSE "nation"

FallbackCategory(text) ==
  LET text_lower == lower(text)
  IN IF AnyWordIn(text_lower, SportsWords) THEN "sports"
     ELSE IF AnyWordIn(text_lower, EntertainmentWords) THEN "entertainment"
     ELSE IF AnyWordIn(text_lower, BusinessWords) THEN "business"
     ELSE IF AnyWordIn(text_lower, EditorialWords) THEN "editorial"
     ELSE "nation"

FallbackConfidence(category) ==
  CASE category = "sports" -> Pct(85)
    [] category = "entertainment" -> Pct(80)
    [] category = "business" -> Pct(75)
    [] category = "editorial" -> Pct(70)
    [] category = "nation" -> Pct(65)

\* only the winning category gets an entry
FallbackProbs_WinnerOnly(category, confidence) ==
  [cat \in {category} |-> confidence]

\* all_probs = {cat: 0.05 for cat in CATEGORIES.keys()}; all_probs[category] = confidence
FallbackProbs(category, confidence) ==
  [cat \in CategoryKeys |-> IF cat = category THEN confidence ELSE Pct(5)]

(***************************************************************************)
(* classify_text.  The body of the try block ends by returning a result,  *)
(* by raising HTTPException(status) or by raising another exception; the   *)
(* except clauses then decide the response.                                *)
(***************************************************************************)
NoLocals ==
  [transform_called |-> FALSE, all_predictions |-> <<>>, path |-> "none",
   category |-> "", predicted_idx |-> -1]

Completed(outcome, status, body, loc) ==
  [outcome |-> outcome, status |-> status, body |-> body, locals |-> loc]

\* ClassificationResult(...)
ClassificationResult(category, confidence, all_probs) ==
  [category_english |-> category_info(category).english,
   category_telugu |-> category_info(category).telugu,
   confidence |-> confidence,
   all_probabilities |-> all_probs]

\* lines 126-150
FallbackResult(text, loc) ==
  LET category == FallbackCategory(text)
      confidence == FallbackConfidence(category)
  IN Completed("return", 200,
       ClassificationResult(category, confidence, FallbackProbs(category, confidence)),
       [loc EXCEPT !.path = "fallback", !.category = category])

\* lines 152-166
EnsembleResult(m, loc) ==
  LET ensemble_probs == Mean(loc.all_predictions)
      predicted_idx == ArgMax(ensemble_probs)
      loc2 == [loc EXCEPT !.path = "ensemble", !.predicted_idx = predicted_idx]
  IN IF m["label_encoder"].inverse_raises
     THEN Completed("exception", 0, [detail |-> "Error"], loc2)
     ELSE LET category == m["label_encoder"].classes_[predicted_idx + 1]
              confidence == ensemble_probs[predicted_idx + 1]
              category_list == m["label_encoder"].classes_
          IN Completed("return", 200,
               ClassificationResult(category, confidence,
                                    ZipDict(category_list, ensemble_probs)),
               [loc2 EXCEPT !.category = category])

\* lines 103-179: the try block after the two checks
ValidatedBlock(m, text) ==
  LET called == [NoLocals EXCEPT !.transform_called = TRUE]
  IN IF m["vectorizer"].transform_raises
     THEN Completed("exception", 0, [detail |-> "Error"], called)
     ELSE IF ~m["label_encoder"].has_classes
     THEN Completed("exception", 0, [detail |-> "Error"], called)
     ELSE LET num_classes == Len(m["label_encoder"].classes_)
              all_predictions == CollectPredictions(m, ModelNames, num_classes)
              loc == [called EXCEPT !.all_predictions = all_predictions]
          IN IF Len(all_predictions) = 0
             THEN FallbackResult(text, loc)
             ELSE EnsembleResult(m, loc)

\* the two checks made in the other order
TryBlock_TextFirst(m, raw) ==
  LET text == strip(raw)
  IN IF text = <<>>
     THEN Completed("http", 400, [detail |-> "Text cannot be empty"], NoLocals)
     ELSE IF "vectorizer" \notin DOMAIN m \/ "label_encoder" \notin DOMAIN m
     THEN Completed("http", 503, [detail |-> "Models not loaded"], NoLocals)
     ELSE ValidatedBlock(m, text)

\* lines 95-179: the try block
TryBlock(m, raw) ==
  IF "vectorizer" \notin DOMAIN m \/ "label_encoder" \notin DOMAIN m
  THEN Completed("http", 503, [detail |-> "Models not loaded"], NoLocals)
  ELSE LET text == strip(raw)
       IN IF text = <<>>
          THEN Completed("http", 400, [detail |-> "Text cannot be empty"], NoLocals)
          ELSE ValidatedBlock(m, text)

\* an except clause that catches HTTPException with everything else
ExceptClauses_CatchAll(r) ==
  IF r.outcome = "return" THEN r ELSE [r EXCEPT !.status = 500]

\* lines 181-187: except HTTPException: raise; except Exception: raise 500
ExceptClauses(r) ==
  IF r.outcome = "http" THEN r
  ELSE IF r.outcome = "exception"
  THEN [r EXCEPT !.status = 500]
  ELSE r

\* a handler that drops the classifiers it has used from the registry
classify_text_Evicting(m, raw) ==
  LET r == ExceptClauses(TryBlock(m, raw))
  IN [response |-> [status |-> r.status, body |-> r.body],
      locals |-> r.locals,
      models |-> IF r.locals.all_predictions = <<>>
                 THEN m
                 ELSE [n \in DOMAIN m \ Range(ModelNames) |-> m[n]]]

\* the handler: its response, its locals and the registry it leaves
classify_text(m, raw) ==
  LET r == ExceptClauses(TryBlock(m, raw))
  IN [response |-> [status |-> r.status, body |-> r.body],
      locals |-> r.locals,
      models |-> m]

root(m) ==
  [response |-> [status |-> 200,
                 body |-> [message |-> "Telugu Text Classification API",
                           status |-> "active",
                           models_loaded |-> models_loaded(m)]],
   locals |-> NoLocals,
   models |-> m]

health_check(m) ==
  [response |-> [status |-> 200,
                 body |-> [status |-> "healthy",
                           models_loaded |-> models_loaded(m)]],
   locals |-> NoLocals,
   models |-> m]

get_categories(m) ==
  [response |-> [status |-> 200,
                 body |-> [categories |->
                             [cat \in CategoryKeys |-> category_info(cat)]]],
   locals |-> NoLocals,
   models |-> m]

(***************************************************************************)
(* The artifact stores and the request texts the model draws from.         *)
(***************************************************************************)
\* the classes of an encoder fitted on the five configured labels
ConfiguredClasses == <<"business", "editorial", "entertainment", "nation", "sports">>
\* the classes of an encoder fitted on other labels
OtherClasses == <<"business", "politics", "sports">>

PeakedVector == <<Pct(10), Pct(10), Pct(10), Pct(10), Pct(60)>>
FlatVector == <<Pct(20), Pct(20), Pct(20), Pct(20), Pct(20)>>
ShortVector == <<Pct(20), Pct(30), Pct(50)>>
\* an array that is no probability vector
RawScores == <<Pct(120), 0 - Pct(20), 0, 0, 0>>

VectorizerChoices == {Vectorizer(FALSE), Vectorizer(TRUE), Unloadable}

LabelEncoderChoices ==
  {LabelEncoder(TRUE, ConfiguredClasses, FALSE),
   LabelEncoder(TRUE, OtherClasses, FALSE),
   LabelEncoder(TRUE, ConfiguredClasses, TRUE),
   LabelEncoder(FALSE, <<>>, FALSE),
   Unloadable}

ClassifierChoices ==
  {Predictor(FALSE, "ndarray", PeakedVector),
   Predictor(FALSE, "ndarray", FlatVector),
   Predictor(TRUE, "none", <<>>),
   NdArray(ShortVector),
   NdArray(RawScores),
   Callable(FALSE, "ndarray", FlatVector),
   Callable(FALSE, "list", PeakedVector),
   Callable(TRUE, "none", <<>>),
   PlainObject,
   Unloadable}

\* joblib.load is never reached for a file that follows an unloadable one:
\* such files are taken to be unloadable too
Stores ==
  {s \in [Range(LoadOrder) -> VectorizerChoices \cup LabelEncoderChoices
                                \cup ClassifierChoices] :
     /\ s["vectorizer"] \in VectorizerChoices
     /\ s["label_encoder"] \in LabelEncoderChoices
     /\ \A n \in Range(ModelNames) : s[n] \in ClassifierChoices
     /\ \A i \in 1..(Len(LoadOrder) - 1) :
          s[LoadOrder[i]] = Unloadable => s[LoadOrder[i + 1]] = Unloadable}

\* stores for the keyword heuristic: a ready registry and at most one classifier
KeywordStores ==
  {s \in Stores :
     /\ s["vectorizer"] \in {Vectorizer(FALSE), Vectorizer(TRUE)}
     /\ s["label_encoder"] = LabelEncoder(TRUE, ConfiguredClasses, FALSE)
     /\ s["bilstm"] = Unloadable}

Space == <<32>>
LatinCapital == <<65>>
\* the sports keyword of two code points
ShortSportsWord == SportsWords[4]

Texts == Concats({Space, LatinCapital, ShortSportsWord}, MaxParts)

\* a Telugu letter that starts no keyword
TeluguLetter == <<3122>>

KeywordParts ==
  Range(SportsWords) \cup Range(EntertainmentWords) \cup Range(BusinessWords)
    \cup Range(EditorialWords) \cup {Space, LatinCapital, TeluguLetter}

KeywordTexts == Concats(KeywordParts, MaxKeywordParts)

(***************************************************************************)
(* The state machine.                                                      *)
(***************************************************************************)
StartupDone == Len(LoadOrder) + 1

NoRequest == [endpoint |-> "none", text |-> <<>>]
NoResponse == [status |-> 0, body |-> [detail |-> ""]]

InitWith(stores) ==
  /\ store \in stores
  /\ models = [n \in {} |-> Unloadable]
  /\ loadpc = 1
  /\ request = NoRequest
  /\ response = NoResponse
  /\ locals = NoLocals

Init == InitWith(Stores)

\* models[name] = joblib.load(file) succeeds
LoadArtifact ==
  /\ loadpc < StartupDone
  /\ store[LoadOrder[loadpc]] # Unloadable
  /\ models' = [n \in DOMAIN models \cup {LoadOrder[loadpc]} |->
                  IF n = LoadOrder[loadpc] THEN store[n] ELSE models[n]]
  /\ loadpc' = loadpc + 1
  /\ UNCHANGED <<store, request, response, locals>>

\* joblib.load raises: the except clause ends load_models
LoadFails ==
  /\ loadpc < StartupDone
  /\ store[LoadOrder[loadpc]] = Unloadable
  /\ loadpc' = StartupDone
  /\ UNCHANGED <<store, models, request, response, locals>>

\* a request is served once the startup hook has returned; handlers hold no
\* await, so each runs to its end before the next one starts
Serve(req, done) ==
  /\ loadpc = StartupDone
  /\ request' = req
  /\ response' = done.response
  /\ locals' = done.locals
  /\ models' = done.models
  /\ UNCHANGED <<store, loadpc>>

Root == Serve([endpoint |-> "/", text |-> <<>>], root(models))

Health == Serve([endpoint |-> "/health", text |-> <<>>], health_check(models))

Categories ==
  Serve([endpoint |-> "/categories", text |-> <<>>], get_categories(models))

Classify ==
  \E raw \in Texts :
    Serve([endpoint |-> "/classify", text |-> raw], classify_text(models, raw))

\* the request that was drawn at the start is served
ClassifyPending ==
  /\ request.endpoint = "pending"
  /\ Serve([endpoint |-> "/classify", text |-> request.text],
           classify_text(models, request.text))

Next == LoadArtifact \/ LoadFails \/ Root \/ Health \/ Categories \/ Classify

Spec == Init /\ [][Next]_vars

(***************************************************************************)
(* The keyword specification: the handler applied to one text drawn from   *)
(* KeywordTexts, after startup from a store of KeywordStores.              *)
(***************************************************************************)
InitKeywords ==
  /\ store \in KeywordStores
  /\ models = [n \in {} |-> Unloadable]
  /\ loadpc = 1
  /\ request \in {[endpoint |-> "pending", text |-> t] : t \in KeywordTexts}
  /\ response = NoResponse
  /\ locals = NoLocals

NextKeywords == LoadArtifact \/ LoadFails \/ ClassifyPending

SpecKeywords == InitKeywords /\ [][NextKeywords]_vars

(***************************************************************************)
(* Vocabulary of the properties.                                           *)
(***************************************************************************)
ClassifyServed == request.endpoint = "/classify"

\* the text is empty or holds only whitespace
Blank(t) == \A i \in DOMAIN t : t[i] \in Whitespace

HasVectorizer == "vectorizer" \in DOMAIN models
HasLabelEncoder == "label_encoder" \in DOMAIN models
RegistryReady == HasVectorizer /\ HasLabelEncoder

Result == response.body
Probabilities == response.body.all_probabilities

\* the classifiers of the registry, in the order they are tried
PresentModels == SelectSeq(ModelNames, LAMBDA n : n \in DOMAIN models)

\* the request passed both checks, was vectorized and the class list was read
ReachedModels ==
  /\ ClassifyServed
  /\ RegistryReady
  /\ ~Blank(request.text)
  /\ ~models["vectorizer"].transform_raises
  /\ models["label_encoder"].has_classes

Classes == models["label_encoder"].classes_
NumClasses == Len(Classes)

\* the three cases in which an attempt is said to be skipped
NeitherKind(a) == a.kind \notin {"predictor", "ndarray", "callable"}
InvocationFails(a) == a.kind \in {"predictor", "callable"} /\ a.raises
WrongLength(a) == ~NeitherKind(a) /\ ~a.raises /\ Len(a.data) # NumClasses
SkipCase(a) == NeitherKind(a) \/ InvocationFails(a) \/ WrongLength(a)

\* the artifact itself produced an array of the right length
Succeeded(a) ==
  ~NeitherKind(a) /\ ~a.raises /\ a.rtype = "ndarray" /\ Len(a.data) = NumClasses

\* the vectors of the attempts that succeeded, in order
RECURSIVE SuccessfulVectors(_)
SuccessfulVectors(names) ==
  IF names = <<>> THEN <<>>
  ELSE (IF Succeeded(models[Head(names)]) THEN <<models[Head(names)].data>> ELSE <<>>)
         \o SuccessfulVectors(Tail(names))

\* the same, with a uniform vector for every artifact that is neither a
\* predictor nor an array and cannot be called without an exception
RECURSIVE CollectedVectors(_)
CollectedVectors(names) ==
  IF names = <<>> THEN <<>>
  ELSE LET a == models[Head(names)]
       IN (IF a.kind \notin {"predictor", "ndarray"} /\ (NeitherKind(a) \/ a.raises)
           THEN << [i \in 1..NumClasses |-> Unit \div NumClasses] >>
           ELSE IF Succeeded(a) THEN <<a.data>>
           ELSE <<>>)
            \o CollectedVectors(Tail(names))

\* probs, read along the class list, is the exact element-wise mean of vs
IsMeanOf(probs, vs) ==
  \A i \in 1..NumClasses : probs[Classes[i]] * Len(vs) = SumAt(vs, i)

\* idx (from 0) is the first position of the largest entry of probs
IsArgMax(idx, probs) ==
  /\ idx \in 0..(NumClasses - 1)
  /\ \A j \in 1..NumClasses : probs[Classes[j]] <= probs[Classes[idx + 1]]
  /\ \A j \in 1..idx : probs[Classes[j]] < probs[Classes[idx + 1]]

(***************************************************************************)
(* C1.                                                                     *)
(***************************************************************************)
\* C1 as stated: an empty or whitespace-only text yields 400 in every
\* registry state and the vectorizer's transform is not invoked.
C1_BlankTextAlways400 ==
  (ClassifyServed /\ Blank(request.text))
    => (response.status = 400 /\ ~locals.transform_called)

\* C1 amended: an empty or whitespace-only text yields 400 when the registry
\* holds the vectorizer and the label encoder and 503 otherwise; in both
\* cases the vectorizer's transform is not invoked.
C1_BlankTextRejected ==
  (ClassifyServed /\ Blank(request.text))
    => /\ response.status = (IF RegistryReady THEN 400 ELSE 503)
       /\ ~locals.transform_called

\* C1 witness: a whitespace-only text was rejected with 400 by a ready registry.
C1_Witness ==
  /\ ClassifyServed
  /\ request.text # <<>>
  /\ Blank(request.text)
  /\ RegistryReady
  /\ response.status = 400

(***************************************************************************)
(* C2.                                                                     *)
(***************************************************************************)
\* C2: when the registry lacks the vectorizer or the label encoder, /classify
\* returns 503 for every text, blank or not.
C2_NotReady503 ==
  (ClassifyServed /\ ~(HasVectorizer /\ HasLabelEncoder))
    => response.status = 503

\* C2 witness: the label encoder failed to load and a non-blank text got 503.
C2_Witness ==
  /\ ClassifyServed
  /\ HasVectorizer
  /\ ~HasLabelEncoder
  /\ ~Blank(request.text)
  /\ response.status = 503

(***************************************************************************)
(* C3.                                                                     *)
(***************************************************************************)
\* the result names one category, whose entry of all_probabilities is the
\* confidence and the largest entry
TopCategory ==
  /\ locals.category \in DOMAIN Probabilities
  /\ Result.category_english = category_info(locals.category).english
  /\ Result.category_telugu = category_info(locals.category).telugu
  /\ Result.confidence = Probabilities[locals.category]
  /\ \A k \in DOMAIN Probabilities : Probabilities[k] <= Result.confidence
  /\ locals.path = "ensemble" =>
       /\ IsArgMax(locals.predicted_idx, Probabilities)
       /\ locals.category = Classes[locals.predicted_idx + 1]
  /\ locals.path = "fallback" =>
       /\ Result.confidence \in {Pct(85), Pct(80), Pct(75), Pct(70), Pct(65)}
       /\ \A k \in DOMAIN Probabilities \ {locals.category} :
            Probabilities[k] = Pct(5)

\* C3 as stated: every non-empty text gets a result with one top category.
C3_EveryTextGetsTopCategory ==
  (ClassifyServed /\ ~Blank(request.text))
    => (response.status = 200 /\ TopCategory)

\* C3 amended: every result returned for a non-empty text (status 200) names
\* exactly one category; the confidence is that category's entry of
\* all_probabilities and the largest entry, on the ensemble path (first
\* arg-max of the averaged vector, mapped through the class list) and on the
\* fallback path (fixed confidence against 0.05).
C3_ResultHasTopCategory ==
  (ClassifyServed /\ response.status = 200)
    => (~Blank(request.text) /\ locals.path \in {"ensemble", "fallback"} /\ TopCategory)

\* C3 witness: an ensemble of two vectors produced a result.
C3_Witness ==
  /\ ClassifyServed
  /\ response.status = 200
  /\ locals.path = "ensemble"
  /\ Len(locals.all_predictions) = 2
  /\ locals.predicted_idx > 0

(***************************************************************************)
(* C4.                                                                     *)
(***************************************************************************)
InUnitInterval(x) == 0 <= x /\ x <= Unit

\* C4 as stated: in every result the keys of all_probabilities are the five
\* configured categories and every value lies in [0,1].
C4_FiveKeysUnitValues ==
  (ClassifyServed /\ response.status = 200)
    => /\ DOMAIN Probabilities = {"business", "editorial", "entertainment",
                                  "nation", "sports"}
       /\ \A k \in DOMAIN Probabilities : InUnitInterval(Probabilities[k])

\* C4 amended: on the fallback path the keys are the five configured
\* categories and the values lie in [0,1]; on the ensemble path the keys are
\* the label encoder's classes, and the values lie in [0,1] when the entries
\* of every averaged vector do.
C4_KeysAndValues ==
  (ClassifyServed /\ response.status = 200)
    => /\ locals.path = "fallback" =>
            /\ DOMAIN Probabilities = {"business", "editorial", "entertainment",
                                       "nation", "sports"}
            /\ \A k \in DOMAIN Probabilities : InUnitInterval(Probabilities[k])
       /\ locals.path = "ensemble" =>
            /\ DOMAIN Probabilities = Range(Classes)
            /\ (\A i \in DOMAIN locals.all_predictions :
                  \A j \in DOMAIN locals.all_predictions[i] :
                    InUnitInterval(locals.all_predictions[i][j]))
                 => \A k \in DOMAIN Probabilities : InUnitInterval(Probabilities[k])

\* C4 witness: an ensemble result whose keys are the three classes of the
\* label encoder, averaged from vectors with entries in [0,1].
C4_Witness ==
  /\ ClassifyServed
  /\ response.status = 200
  /\ locals.path = "ensemble"
  /\ DOMAIN Probabilities = {"business", "politics", "sports"}
  /\ Len(locals.all_predictions) = 2
  /\ \A k \in DOMAIN Probabilities : InUnitInterval(Probabilities[k])

(***************************************************************************)
(* C5.                                                                     *)
(***************************************************************************)
\* the keyword groups in the order of their priority
PriorityOrder == <<"sports", "entertainment", "business", "editorial">>

GroupWords(g) ==
  CASE g = "sports" -> SportsWords
    [] g = "entertainment" -> EntertainmentWords
    [] g = "business" -> BusinessWords
    [] g = "editorial" -> EditorialWords

\* some keyword of the i-th group occurs in the request text
GroupHit(i) ==
  \E k \in DOMAIN GroupWords(PriorityOrder[i]) :
    Contains(request.text, GroupWords(PriorityOrder[i])[k])

\* the category the first matching group decides
DecidedCategory ==
  IF \E i \in DOMAIN PriorityOrder : GroupHit(i)
  THEN PriorityOrder[CHOOSE i \in DOMAIN PriorityOrder :
                       GroupHit(i) /\ \A j \in 1..(i - 1) : ~GroupHit(j)]
  ELSE "nation"

DecidedConfidence ==
  CASE DecidedCategory = "sports" -> (85 * Unit) \div 100
    [] DecidedCategory = "entertainment" -> (80 * Unit) \div 100
    [] DecidedCategory = "business" -> (75 * Unit) \div 100
    [] DecidedCategory = "editorial" -> (70 * Unit) \div 100
    [] DecidedCategory = "nation" -> (65 * Unit) \div 100

ExampleFirst == <<(10 * Unit) \div 100, (10 * Unit) \div 100, (10 * Unit) \div 100,
                  (10 * Unit) \div 100, (60 * Unit) \div 100>>
ExampleSecond == <<(20 * Unit) \div 100, (20 * Unit) \div 100, (20 * Unit) \div 100,
                   (20 * Unit) \div 100, (20 * Unit) \div 100>>
ExampleMean == <<(15 * Unit) \div 100, (15 * Unit) \div 100, (15 * Unit) \div 100,
                 (15 * Unit) \div 100, (40 * Unit) \div 100>>

ExampleHolds ==
  (/\ ReachedModels
   /\ NumClasses = 5
   /\ locals.all_predictions \in {<<ExampleFirst, ExampleSecond>>,
                                  <<ExampleSecond, ExampleFirst>>}
   /\ ~models["label_encoder"].inverse_raises)
    => /\ response.status = 200
       /\ \A i \in 1..5 : Probabilities[Classes[i]] = ExampleMean[i]
       /\ locals.predicted_idx = 4
       /\ Result.confidence = (40 * Unit) \div 100

PassedChecks == ClassifyServed /\ RegistryReady /\ ~Blank(request.text)

\* an exception is raised behind the two checks: by the vectorizer, by
\* reading classes_, or by the inverse label lookup after averaging
RaisesBehindChecks ==
  /\ PassedChecks
  /\ \/ models["vectorizer"].transform_raises
     \/ ~models["label_encoder"].has_classes
     \/ (locals.all_predictions # <<>> /\ models["label_encoder"].inverse_raises)

\* C8: every /classify request ends in exactly one of 200, 400, 503, 500; an
\* exception raised behind the two checks surfaces as 500, and the 400 of an
\* empty text and the 503 of a registry that is not ready pass unchanged.
C8_Outcomes ==
  ClassifyServed
    => /\ response.status \in {200, 400, 503, 500}
       /\ response.status = 503 <=> ~RegistryReady
       /\ response.status = 400 <=> (RegistryReady /\ Blank(request.text))
       /\ response.status = 500 <=> RaisesBehindChecks
       /\ response.status = 200 <=> (PassedChecks /\ ~RaisesBehindChecks)

\* C8 witness: the inverse label lookup raised after averaging and the
\* response was 500.
C8_Witness ==
  /\ ClassifyServed
  /\ response.status = 500
  /\ locals.path = "ensemble"
  /\ locals.all_predictions # <<>>

(***************************************************************************)
(* C9.                                                                     *)
(***************************************************************************)
\* C9: only the startup load step writes the registry; once startup is over
\* no request changes it, under any sequence of requests, and a request that
\* is repeated gets the same response.
C9_RegistryReadOnly ==
  [][/\ loadpc = Len(LoadOrder) + 1 => models' = models
     /\ models' # models =>
          (loadpc <= Len(LoadOrder) /\ request' = request /\ response' = response)
     /\ (request.endpoint # "none" /\ request' = request) => response' = response
    ]_vars

\* C9 witness: a request was classified by the ensemble with all five
\* artifacts in the registry.
C9_Witness ==
  /\ ClassifyServed
  /\ DOMAIN models = {"vectorizer", "label_encoder", "muril", "bilstm", "lgb"}
  /\ locals.path = "ensemble"
  /\ response.status = 200

(***************************************************************************)
(* C10.                                                                    *)
(***************************************************************************)
StatedOrder == <<"vectorizer", "label_encoder", "muril", "bilstm", "lgb">>

\* C10: the registry is always a prefix of the order vectorizer,
\* label_encoder, muril, bilstm, lgb, and the models_loaded flag of / and
\* /health (registry size >= 2) is true exactly when the vectorizer and the
\* label encoder are both present, that is, exactly when /classify does not
\* answer 503.
C10_FlagAgreesWithGate ==
  /\ \E k \in 0..Len(StatedOrder) : DOMAIN models = {StatedOrder[i] : i \in 1..k}
  /\ (Cardinality(DOMAIN models) >= 2) <=> (HasVectorizer /\ HasLabelEncoder)
  /\ request.endpoint \in {"/", "/health"} =>
       response.body.models_loaded = (HasVectorizer /\ HasLabelEncoder)
  /\ ClassifyServed =>
       (response.status = 503 <=> ~(Cardinality(DOMAIN models) >= 2))

\* C10 witness: /health reported models_loaded false with only the
\* vectorizer in the registry.
C10_Witness ==
  /\ request.endpoint = "/health"
  /\ DOMAIN models = {"vectorizer"}
  /\ response.body.models_loaded = FALSE

====
